---- MODULE Spec2Model ----
(***************************************************************************)
(* State-machine model of the voice-agent session relay.                   *)
(*                                                                         *)
(* The repository holds several copies of the backend server.  The model   *)
(* carries the deployed copy in the variable `variant`:                    *)
(*   "auth"      src/unnamed/part_000         nonce + JWT + upgrade gate   *)
(*   "jwt"       src/server.js:225-446        JWT, no nonce                *)
(*   "callerKey" src/server.js:1-223          caller credential accepted   *)
(*   "telephony1" src/unnamed/part_001:1-143  media-stream gateway relay   *)
(*   "telephony2" src/unnamed/part_002:1-126  the same, with a registry    *)
(*                                                                         *)
(* Time is Date.now() in milliseconds, counted from an arbitrary origin    *)
(* that lies BootMs before the process starts.                             *)
(***************************************************************************)
EXTENDS Integers, Sequences, FiniteSets, TLC

VARIABLES
    variant,            \* which server file runs
    externalSecret,     \* process.env.SESSION_SECRET is set
    indexHtmlTemplate,  \* frontend/dist/index.html was readable at start
    wsValidatesProtocols, \* the installed ws checks the subprotocol names a client socket is given
    now,                \* Date.now()
    sessionNonces,      \* the Map nonce -> expiry
    mintedAt,           \* history: nonce -> time generateNonce returned it
    accepted,           \* history: nonce -> number of consumeNonce calls that returned true
    lastConsume,        \* history: the last consumeNonce call
    lastValidate,       \* history: the last validateWsToken call made on its own
    res,                \* last response of GET /api/session
    issued,             \* tokens handed out by GET /api/session
    sessions,           \* session slot -> the two sockets of one relay session
    activeConnections,  \* the Set of downstream sockets
    upgradeRes,         \* outcome of the last upgrade request
    proc,               \* the node process: "running", "shuttingDown" (a
                        \* shutdown handler has run), "exited0", "exited1"
                        \* (process.exit) or "crashed" (uncaught exception)
    shutdownLog,        \* the calls of the shutdown handlers that ran, in order
    shutdownAt,         \* the clock when the first shutdown handler ran
    client              \* the page of frontend/main.js: its state object, the
                        \* WebSockets it created and its two buttons

vars == << variant, externalSecret, indexHtmlTemplate, wsValidatesProtocols,
           now, sessionNonces, mintedAt, accepted, lastConsume, lastValidate,
           res, issued, sessions, activeConnections, upgradeRes, proc,
           shutdownLog, shutdownAt, client >>

authVars == << sessionNonces, mintedAt, accepted, lastConsume, lastValidate,
              res, issued >>
relayVars == << sessions, activeConnections, upgradeRes, proc, shutdownLog,
               shutdownAt >>
configVars == << variant, externalSecret, indexHtmlTemplate,
                wsValidatesProtocols >>

----------------------------------------------------------------------------
(* Bounds of the model *)

MaxNonces == 2        \* distinct nonces generateNonce can return in one run
MaxIssued == 2        \* distinct tokens GET /api/session hands out in one run
MaxTicks == 6         \* clock ticks of TickMs in SpecAuth
TickMs == 60000       \* granularity of the clock in SpecAuth
MaxTokTicks == 13      \* clock ticks of TokTickMs in SpecTok
TokTickMs == 300000   \* granularity of the clock in SpecTok
MaxHours == 1         \* clock ticks of one hour in Spec
MaxSessions == 1      \* sessions admitted in one run
MaxFrames == 2        \* frames that arrive at the relay in one session
MaxGraceTicks == 1    \* clock ticks of GraceTickMs before a shutdown begins
GraceTickMs == 5000   \* granularity of the clock in SpecShutdown
MaxTriggers == 2      \* signals and faults that reach a handler in one run
MaxSockets == 2       \* WebSockets the page creates in one run
MaxTraffic == 3       \* messages the page receives in one run, and frames it sends

----------------------------------------------------------------------------
(* Program constants *)

NONCE_TTL_MS == 5 * 60 * 1000
SWEEP_INTERVAL_MS == 60 * 1000
JWT_EXPIRY_S == 60 * 60
HourMs == 60 * 60 * 1000
BootMs == 2 * HourMs

\* The relays that forward frames as they are, and the relays of the
\* telephony media stream.
RawVariants == {"auth", "jwt", "callerKey"}
TelephonyVariants == {"telephony1", "telephony2"}
Variants == RawVariants \cup TelephonyVariants

\* const activeConnections = new Set() exists in the file.
HasRegistry == variant \in {"auth", "jwt", "telephony2"}

\* The file has the session-token endpoint GET /api/session.
HasSessionRoute == variant \in {"auth", "jwt"}

\* const SESSION_SECRET = process.env.SESSION_SECRET || crypto.randomBytes(32)
SESSION_SECRET == IF externalSecret THEN "envSecret" ELSE "randomSecret"

\* const REQUIRE_NONCE = !!process.env.SESSION_SECRET  (only part_000 has it)
REQUIRE_NONCE == variant = "auth" /\ externalSecret

Nonces == 1..MaxNonces
\* Values a client may put in x-session-nonce: every nonce the server can
\* return, and one value it never returns.
NonceValues == 1..(MaxNonces + 1)
\* The header is absent (or empty), or carries one value.
NonceHeaders == {<< >>} \cup {<< v >> : v \in NonceValues}

----------------------------------------------------------------------------
(* Tokens *)

NoToken == [iat |-> 0, exp |-> 0, sig |-> "none"]

\* Math.floor(Date.now() / 1000)
NowS(t) == t \div 1000

\* jwt.sign({ iat }, secret, { expiresIn: '1h' }): exp = iat + 3600
jwtSign(iat, secret) == [iat |-> iat, exp |-> iat + JWT_EXPIRY_S, sig |-> secret]

\* jwt.verify accepting a token at the very second of its exp.
jwtVerify_lateExpiry(token, secret, t) ==
    token.sig = secret /\ NowS(t) <= token.exp

\* jwt.verify(token, secret) does not throw: the signature is the one made
\* with secret and the clock is before exp.
jwtVerify(token, secret, t) == token.sig = secret /\ NowS(t) < token.exp

----------------------------------------------------------------------------
(* The Sec-WebSocket-Protocol header *)

\* One comma-separated value of the header: "access_token.<jwt>" or a plain
\* name.
TokenEntry(t) == [pfx |-> "access_token.", tok |-> t, txt |-> ""]
PlainEntry(x) == [pfx |-> "", tok |-> NoToken, txt |-> x]
NoEntry == [pfx |-> "", tok |-> NoToken, txt |-> ""]

\* request.headers['sec-websocket-protocol']: undefined, or a string given
\* by its comma-separated values ('' has none).
NoHeader == [present |-> FALSE, list |-> << >>]
Hdr(list) == [present |-> TRUE, list |-> list]

\* Tokens that exist outside the server: the ones it issued, an empty or
\* garbled one, one signed with another key and, when the secret is
\* configured externally, a token that an earlier run of the server signed
\* with it ten minutes before this start.
TokenPool ==
    issued
    \cup {NoToken, jwtSign(NowS(BootMs), "attackerSecret")}
    \cup (IF externalSecret
          THEN {jwtSign(NowS(BootMs) - 600, "envSecret")}
          ELSE {})

ProtocolEntries == {TokenEntry(t) : t \in TokenPool} \cup {PlainEntry("clientKey")}

\* Headers absent or with one value.
OneValueHeaders == {NoHeader} \cup {Hdr(<< a >>) : a \in ProtocolEntries}

\* Headers of upgrade requests: absent, empty, one value or two values.
Headers ==
    OneValueHeaders \cup {Hdr(<< >>)}
    \cup {Hdr(<< a, b >>) : a \in ProtocolEntries, b \in ProtocolEntries}

Paths == {"/api/voice-agent", "/twilio-stream", "/agent/converse"}

\* list.find(p => p.startsWith('access_token.')), NoEntry for undefined
findTokenProto(list) ==
    LET idx == {i \in 1..Len(list) : list[i].pfx = "access_token."}
    IN  IF idx = {} THEN NoEntry
        ELSE list[CHOOSE i \in idx : \A j \in idx : i <= j]

\* validateWsToken refusing a token that a session was admitted with.
validateWsToken_oneUse(protocols, secret, t) ==
    IF ~protocols.present \/ protocols.list = << >> THEN NoEntry
    ELSE LET tokenProto == findTokenProto(protocols.list)
         IN  IF tokenProto = NoEntry THEN NoEntry
             ELSE IF /\ jwtVerify(tokenProto.tok, secret, t)
                     /\ \A i \in DOMAIN sessions :
                           sessions[i].validProto # tokenProto
                  THEN tokenProto
                  ELSE NoEntry

\* validateWsToken(protocols): the access_token.<jwt> value, NoEntry for null
validateWsToken(protocols, secret, t) ==
    IF ~protocols.present \/ protocols.list = << >> THEN NoEntry
    ELSE LET tokenProto == findTokenProto(protocols.list)
         IN  IF tokenProto = NoEntry THEN NoEntry
             ELSE IF jwtVerify(tokenProto.tok, secret, t) THEN tokenProto
             ELSE NoEntry

NoValidate == [tok |-> NoToken, found |-> FALSE, ok |-> FALSE]

----------------------------------------------------------------------------
(* Nonce authority *)

\* generateNonce(): crypto.randomBytes(16) never repeats a value.
generateNonce(store, n, t) == [x \in DOMAIN store \cup {n} |->
                                 IF x = n THEN t + NONCE_TTL_MS ELSE store[x]]

\* consumeNonce without line 60: the entry is never deleted.
consumeNonce_keep(store, v, t) ==
    IF v \notin DOMAIN store
    THEN [ret |-> FALSE, store |-> store]
    ELSE [ret |-> t < store[v], store |-> store]

\* consumeNonce with `Date.now() <= expiry` at line 61.
consumeNonce_inclusive(store, v, t) ==
    IF v \notin DOMAIN store
    THEN [ret |-> FALSE, store |-> store]
    ELSE [ret |-> t <= store[v],
          store |-> [x \in DOMAIN store \ {v} |-> store[x]]]

\* consumeNonce deleting the entry only when it is still valid.
consumeNonce_keepExpired(store, v, t) ==
    IF v \notin DOMAIN store
    THEN [ret |-> FALSE, store |-> store]
    ELSE [ret |-> t < store[v],
          store |-> IF t < store[v]
                    THEN [x \in DOMAIN store \ {v} |-> store[x]]
                    ELSE store]

\* consumeNonce accepting a value that is not in the store.
consumeNonce_unknownOk(store, v, t) ==
    IF v \notin DOMAIN store
    THEN [ret |-> TRUE, store |-> store]
    ELSE [ret |-> t < store[v],
          store |-> [x \in DOMAIN store \ {v} |-> store[x]]]

\* consumeNonce(nonce): the value returned and the store left behind.
consumeNonce(store, v, t) ==
    IF v \notin DOMAIN store
    THEN [ret |-> FALSE, store |-> store]
    ELSE [ret |-> t < store[v],
          store |-> [x \in DOMAIN store \ {v} |-> store[x]]]

\* The setInterval callback with `now > expiry`.
sweep_strict(store, t) == [x \in {y \in DOMAIN store : ~(t > store[y])} |-> store[x]]

\* The setInterval callback: if (now >= expiry) sessionNonces.delete(nonce)
sweep(store, t) == [x \in {y \in DOMAIN store : ~(t >= store[y])} |-> store[x]]

NoConsume == [v |-> 0, present |-> FALSE, ret |-> FALSE]
NoRes == [status |-> 0, type |-> "", code |-> "", token |-> FALSE]

\* res.status(403).json({ error: { type, code, message } })
InvalidNonceRes == [status |-> 403, type |-> "AuthenticationError",
                    code |-> "INVALID_NONCE", token |-> FALSE]

\* res.json({ token })
TokenRes == [status |-> 200, type |-> "", code |-> "", token |-> TRUE]

\* The nonce check with `nonce && !consumeNonce(nonce)`.
nonceRejected_missingOk(h, ret) == h # << >> /\ ~ret

\* if (!nonce || !consumeNonce(nonce)): ret is what consumeNonce returned
\* when it was called.
nonceRejected(h, ret) == h = << >> \/ ~ret

Bump(f, v) == [f EXCEPT ![v] = IF @ < 2 THEN @ + 1 ELSE @]

----------------------------------------------------------------------------
(* Initial state *)

\* Only part_000 reads frontend/dist/index.html, and only the token relays
\* read SESSION_SECRET.  The raw relays use the (data, isBinary) message
\* signature of ws 8, which validates subprotocol names; the telephony relays
\* run on whichever ws is installed.
Init ==
    /\ variant \in Variants
    /\ externalSecret \in (IF variant \in {"auth", "jwt"} THEN BOOLEAN ELSE {FALSE})
    /\ indexHtmlTemplate \in (IF variant = "auth" THEN BOOLEAN ELSE {FALSE})
    /\ wsValidatesProtocols \in (IF variant \in TelephonyVariants
                                 THEN BOOLEAN ELSE {TRUE})
    /\ now = BootMs
    /\ sessionNonces = << >>
    /\ mintedAt = << >>
    /\ accepted = [n \in Nonces |-> 0]
    /\ lastConsume = NoConsume
    /\ lastValidate = NoValidate
    /\ res = NoRes
    /\ issued = {}
    /\ sessions = << >>
    /\ activeConnections = {}
    /\ upgradeRes = ""
    /\ proc = "running"
    /\ shutdownLog = << >>
    /\ shutdownAt = 0
    /\ client = [socks |-> << >>,
                 sent |-> << >>,
                 rcv |-> 0,
                 ws |-> 0,
                 isConnected |-> FALSE,
                 mediaStream |-> FALSE,
                 audioProcessor |-> FALSE,
                 hasUnsavedChanges |-> FALSE,
                 micArmed |-> 0,
                 micLate |-> 0,
                 connectBtnDisabled |-> FALSE,
                 disconnectHidden |-> TRUE]

----------------------------------------------------------------------------
(* Actions of the nonce/token authority *)

\* Time passes.
Tick(d, limit) ==
    /\ now + d <= limit
    /\ now' = now + d
    /\ UNCHANGED << configVars, client, authVars, relayVars >>

\* setInterval(() => {...}, 60_000): the callback runs no earlier than one
\* interval after the start.  The clock moves in steps of at least one
\* interval, so the timer is due again after every step, and a second run at
\* the same instant removes nothing more.
Sweep ==
    /\ variant = "auth"
    /\ now >= BootMs + SWEEP_INTERVAL_MS
    /\ sessionNonces' = sweep(sessionNonces, now)
    /\ UNCHANGED << configVars, client, now, mintedAt, accepted, lastConsume,
                    lastValidate, res, issued, relayVars >>

\* app.get('/')
ServePage ==
    /\ variant = "auth"
    /\ IF ~indexHtmlTemplate
       THEN UNCHANGED << sessionNonces, mintedAt >>
       ELSE \E n \in Nonces \ DOMAIN mintedAt :
              /\ sessionNonces' = generateNonce(sessionNonces, n, now)
              /\ mintedAt' = [x \in DOMAIN mintedAt \cup {n} |->
                                IF x = n THEN now ELSE mintedAt[x]]
    /\ UNCHANGED << configVars, client, now, accepted, lastConsume, lastValidate,
                    res, issued, relayVars >>

\* app.get('/api/session') with header x-session-nonce = h
SessionRequest(h) ==
    /\ HasSessionRoute
    /\ LET called == REQUIRE_NONCE /\ h # << >>
           c == IF called THEN consumeNonce(sessionNonces, h[1], now)
                          ELSE [ret |-> FALSE, store |-> sessionNonces]
           refused == REQUIRE_NONCE /\ nonceRejected(h, c.ret)
           token == jwtSign(NowS(now), SESSION_SECRET)
       IN  /\ sessionNonces' = c.store
           /\ lastConsume' =
                IF called
                THEN [v |-> h[1],
                      present |-> h[1] \in DOMAIN sessionNonces,
                      ret |-> c.ret]
                ELSE lastConsume
           /\ accepted' = IF called /\ c.ret /\ h[1] \in Nonces
                          THEN Bump(accepted, h[1]) ELSE accepted
           /\ IF refused
              THEN /\ res' = InvalidNonceRes
                   /\ issued' = issued
              ELSE /\ token \in issued \/ Cardinality(issued) < MaxIssued
                   /\ res' = TokenRes
                   /\ issued' = issued \cup {token}
    /\ UNCHANGED << configVars, client, now, mintedAt, lastValidate, relayVars >>

----------------------------------------------------------------------------
(* The nonce/token authority on a one-minute clock *)

InitAuth == Init /\ HasSessionRoute

NextAuth ==
    \/ Tick(TickMs, BootMs + MaxTicks * TickMs)
    \/ Sweep
    \/ ServePage
    \/ \E h \in NonceHeaders : SessionRequest(h)

SpecAuth == InitAuth /\ [][NextAuth]_vars

----------------------------------------------------------------------------
(* Token validation on a ten-minute clock that runs past the token expiry *)

\* One call of validateWsToken(h) by itself.
ValidateCall(h) ==
    /\ HasSessionRoute
    /\ LET first == findTokenProto(h.list)
           validProto == validateWsToken(h, SESSION_SECRET, now)
       IN  lastValidate' = [tok |-> first.tok,
                            found |-> h.present /\ first # NoEntry,
                            ok |-> validProto # NoEntry]
    /\ UNCHANGED << configVars, client, now, sessionNonces, mintedAt, accepted,
                    lastConsume, res, issued, relayVars >>

\* The server runs without a built frontend, so that no page and no nonce is
\* served: the nonce authority is checked under SpecAuth.
InitTok == Init /\ HasSessionRoute /\ ~indexHtmlTemplate

NextTok ==
    \/ Tick(TokTickMs, BootMs + MaxTokTicks * TokTickMs)
    \/ \E h \in NonceHeaders : SessionRequest(h)
    \/ \E h \in OneValueHeaders : ValidateCall(h)

SpecTok == InitTok /\ [][NextTok]_vars

----------------------------------------------------------------------------
(* Session relay *)

\* CONFIG.deepgramApiKey: a non-empty string, the process exits at start
\* without it.  Credential strings are given like header strings, by their
\* comma-separated values.
DeepgramApiKey == << PlainEntry("DEEPGRAM_API_KEY") >>

\* The relay presenting the caller's header value whenever there is one.
upstreamApiKey_callerFirst(h) ==
    IF h.present /\ h.list # << >> THEN h.list ELSE DeepgramApiKey

\* The relay never presenting the caller's header value.
upstreamApiKey_serverOnly(h) == DeepgramApiKey

\* The key presented upstream: CONFIG.deepgramApiKey in the token relays,
\* `protocol || CONFIG.deepgramApiKey` in the relay that accepts a caller
\* credential.
upstreamApiKey(h) ==
    IF variant = "callerKey"
    THEN IF h.present /\ h.list # << >> THEN h.list ELSE DeepgramApiKey
    ELSE DeepgramApiKey

\* headers: { Authorization: `Token ${apiKey}` }
Authorization(apiKey) == [scheme |-> "Token ", cred |-> apiKey]

\* ws parses the header before it completes the handshake and aborts with
\* 400 on an empty header or a repeated value.
wsParseOk(h) ==
    h.present =>
        /\ h.list # << >>
        /\ \A i \in 1..Len(h.list) : \A j \in 1..Len(h.list) :
              i # j => h.list[i] # h.list[j]

\* handleProtocols returning the last access_token.* value it is offered.
RECURSIVE handleProtocols_last(_)
handleProtocols_last(protocols) ==
    IF protocols = << >> THEN NoEntry
    ELSE IF protocols[Len(protocols)].pfx = "access_token."
         THEN protocols[Len(protocols)]
         ELSE handleProtocols_last(SubSeq(protocols, 1, Len(protocols) - 1))

\* handleProtocols: (protocols) => { for (const proto of protocols) ... },
\* NoEntry for false
RECURSIVE handleProtocols(_)
handleProtocols(protocols) ==
    IF protocols = << >> THEN NoEntry
    ELSE IF Head(protocols).pfx = "access_token." THEN Head(protocols)
         ELSE handleProtocols(Tail(protocols))

\* The subprotocol ws echoes: what handleProtocols selects where the server
\* has one, the first value offered where it has none, NoEntry for none.
echoedProtocol(h) ==
    IF ~h.present THEN NoEntry
    ELSE IF variant \in {"auth", "jwt"} THEN handleProtocols(h.list)
    ELSE Head(h.list)

\* The path the relay upgrades.
RelayPath(path) ==
    CASE variant = "auth" -> path = "/api/voice-agent"
      [] variant = "jwt" -> path \in {"/api/voice-agent", "/twilio-stream"}
      [] variant \in TelephonyVariants -> path = "/twilio-stream"
      [] OTHER -> path = "/agent/converse"

\* upgradeGate with a WebSocketServer that keeps upgrading after close().
upgradeGate_afterClose(h, path) ==
    LET validProto == validateWsToken(h, SESSION_SECRET, now)
        handleUpgrade(vp) ==
            IF wsParseOk(h)
            THEN [status |-> "101 Switching Protocols", validProto |-> vp]
            ELSE [status |-> "400 Bad Request", validProto |-> vp]
    IN  CASE variant = "auth" ->
               IF ~RelayPath(path) THEN [status |-> "destroyed", validProto |-> NoEntry]
               ELSE IF validProto = NoEntry
                    THEN [status |-> "401 Unauthorized", validProto |-> NoEntry]
                    ELSE handleUpgrade(validProto)
          [] variant = "jwt" ->
               IF ~RelayPath(path) THEN [status |-> "destroyed", validProto |-> NoEntry]
               ELSE IF ~h.present \/ h.list = << >> THEN handleUpgrade(NoEntry)
               ELSE IF validProto = NoEntry
                    THEN [status |-> "401 Unauthorized", validProto |-> NoEntry]
                    ELSE handleUpgrade(validProto)
          [] variant \in TelephonyVariants ->
               IF ~RelayPath(path) THEN [status |-> "destroyed", validProto |-> NoEntry]
               ELSE handleUpgrade(NoEntry)
          [] OTHER ->
               IF ~RelayPath(path) THEN [status |-> "400 Bad Request", validProto |-> NoEntry]
               ELSE handleUpgrade(NoEntry)

\* server.on('upgrade') up to wss.handleUpgrade: the status line answered
\* and what validateWsToken returned.  After wss.close() a WebSocketServer
\* made with noServer answers 503 from handleUpgrade, and one made with
\* { server } has removed its 'upgrade' listener, so that the request is
\* served as a plain GET.
upgradeGate(h, path) ==
    LET validProto == validateWsToken(h, SESSION_SECRET, now)
        handleUpgrade(vp) ==
            IF ~wsParseOk(h)
            THEN [status |-> "400 Bad Request", validProto |-> vp]
            ELSE IF proc = "shuttingDown"
                 THEN [status |-> "503 Service Unavailable", validProto |-> vp]
                 ELSE [status |-> "101 Switching Protocols", validProto |-> vp]
    IN  CASE variant = "auth" ->
               IF ~RelayPath(path) THEN [status |-> "destroyed", validProto |-> NoEntry]
               ELSE IF validProto = NoEntry
                    THEN [status |-> "401 Unauthorized", validProto |-> NoEntry]
                    ELSE handleUpgrade(validProto)
          [] variant = "jwt" ->
               IF ~RelayPath(path) THEN [status |-> "destroyed", validProto |-> NoEntry]
               ELSE IF ~h.present \/ h.list = << >> THEN handleUpgrade(NoEntry)
               ELSE IF validProto = NoEntry
                    THEN [status |-> "401 Unauthorized", validProto |-> NoEntry]
                    ELSE handleUpgrade(validProto)
          [] variant \in TelephonyVariants ->
               IF ~RelayPath(path) THEN [status |-> "destroyed", validProto |-> NoEntry]
               ELSE handleUpgrade(NoEntry)
          [] OTHER ->
               IF proc = "shuttingDown"
               THEN [status |-> "not upgraded", validProto |-> NoEntry]
               ELSE IF ~RelayPath(path)
                    THEN [status |-> "400 Bad Request", validProto |-> NoEntry]
                    ELSE handleUpgrade(NoEntry)

\* new WebSocket(CONFIG.deepgramAgentUrl, `Token ${CONFIG.deepgramApiKey}`):
\* the second argument is a subprotocol list, and a ws that validates
\* subprotocol names throws SyntaxError for a name with a space in it.
constructorThrows == variant \in TelephonyVariants /\ wsValidatesProtocols

\* A WebSocket message: its type and its bytes.  The relay's own
\* notifications are JSON.stringify({ type: 'Error', description, code }),
\* a string, which ws sends as a text frame.
Frame(binary, data) == [binary |-> binary, type |-> "", code |-> "", data |-> data]
ErrorFrame(code) == [binary |-> FALSE, type |-> "Error", code |-> code, data |-> ""]
Frames == {Frame(TRUE, "audio"), Frame(FALSE, "json")}

\* What the relay passed to clientWs.close(): nothing yet, a code, or no
\* argument at all.
NoClose == [called |-> FALSE, coded |-> FALSE, code |-> 0]
CloseWith(c) == [called |-> TRUE, coded |-> TRUE, code |-> c]
CloseNoCode == [called |-> TRUE, coded |-> FALSE, code |-> 0]

\* Codes ws reports with the 'close' event of the upstream socket: always a
\* number, 1005 when the close frame carried none, 1006 when there was no
\* close frame.
UpstreamCloseCodes == {1000, 1005, 1006, 4000}

reservedCodes == {1004, 1005, 1006, 1015}

\* closeCode with the reserved codes passed on.
closeCode_passReserved(code) ==
    IF code >= 1000 /\ code <= 4999 THEN code ELSE 1000

\* const closeCode = (typeof code === 'number' && code >= 1000 &&
\*   code <= 4999 && !reservedCodes.includes(code)) ? code : 1000
closeCode(code) ==
    IF code >= 1000 /\ code <= 4999 /\ code \notin reservedCodes
    THEN code ELSE 1000

\* forward sending every frame as a text frame.
forward_asText(log, f, readyState) ==
    IF readyState = "OPEN" THEN Append(log, [f EXCEPT !.binary = FALSE]) ELSE log

\* forward without the readyState test.
forward_unguarded(log, f, readyState) == Append(log, f)

\* if (to.readyState === WebSocket.OPEN) to.send(data, { binary: isBinary }):
\* the frames sent on the socket so far.
forward(log, f, readyState) ==
    IF readyState = "OPEN" THEN Append(log, f) ELSE log

\* wss.on('connection') up to the registration of the handlers: the session
\* with its upstream socket just created.  validProto (what validateWsToken
\* returned for the request) and offered (how many subprotocol values the
\* request carried) are kept as history, and so is uHist (how the upstream
\* socket failed).  up and down are the frames the relay sent on the upstream
\* and the downstream socket, dClose its call of close() on the downstream;
\* cIn and uIn count the 'message' events of the downstream and the upstream
\* socket.
newSession(h, validProto) ==
    [d |-> "OPEN",
     u |-> "CONNECTING",
     auth |-> Authorization(upstreamApiKey(h)),
     via |-> IF variant \in TelephonyVariants THEN "protocols" ELSE "headers",
     protocol |-> echoedProtocol(h),
     validProto |-> validProto,
     offered |-> Len(h.list),
     wired |-> TRUE,
     cIn |-> 0,
     uIn |-> 0,
     up |-> << >>,
     down |-> << >>,
     dClose |-> NoClose,
     uHist |-> ""]

\* catch (error) { if (clientWs.readyState === WebSocket.OPEN) {
\*   clientWs.send(JSON.stringify({ type: 'Error', ...,
\*   code: 'CONNECTION_FAILED' })); clientWs.close(); } }
onSetupError(s) ==
    [s EXCEPT !.down = forward(@, ErrorFrame("CONNECTION_FAILED"), s.d),
              !.d = IF s.d = "OPEN" THEN "CLOSING" ELSE @,
              !.dClose = IF s.d = "OPEN" THEN CloseNoCode ELSE @]

\* wss.on('connection') when new WebSocket(...) throws: no upstream socket
\* and no handler exists.  The raw relays catch the exception; the telephony
\* relays have no try around the constructor.
failedSession(h, validProto) ==
    LET s == [newSession(h, validProto) EXCEPT !.u = "NONE", !.wired = FALSE]
    IN  IF variant \in RawVariants THEN onSetupError(s) ELSE s

\* The handlers run while the process lives.
Alive == proc \in {"running", "shuttingDown"}

\* The end of the process (process.exit or an uncaught exception) takes every
\* socket of every session with it.
processEnds(ss) ==
    [i \in DOMAIN ss |->
       [ss[i] EXCEPT !.d = "CLOSED",
                     !.u = IF @ = "NONE" THEN "NONE" ELSE "CLOSED"]]

\* server.on('upgrade') for a request with Sec-WebSocket-Protocol h on path,
\* the upstream socket being created; at most cap sessions are followed.
Upgrade(h, path, cap) ==
    LET g == upgradeGate(h, path)
        sid == Cardinality(DOMAIN sessions) + 1
    IN  /\ Alive
        /\ upgradeRes' = g.status
        /\ IF g.status = "101 Switching Protocols"
           THEN /\ sid <= cap
                /\ ~constructorThrows
                /\ sessions' = [i \in DOMAIN sessions \cup {sid} |->
                                  IF i = sid THEN newSession(h, g.validProto)
                                  ELSE sessions[i]]
                /\ activeConnections' =
                     IF HasRegistry
                     THEN activeConnections \cup {sid}
                     ELSE activeConnections
           ELSE UNCHANGED << sessions, activeConnections >>
        /\ UNCHANGED << configVars, client, now, authVars, proc, shutdownLog,
                        shutdownAt >>

UpgradeRequest(h, path) == Upgrade(h, path, MaxSessions)

\* server.on('upgrade') for a request that is upgraded, new WebSocket(...)
\* throwing in the connection handler.  Without a try (and without an
\* uncaughtException handler, which the telephony files do not have) the
\* exception ends the process.
UpgradeWiringFails(h, path, cap) ==
    LET g == upgradeGate(h, path)
        sid == Cardinality(DOMAIN sessions) + 1
        ss == [i \in DOMAIN sessions \cup {sid} |->
                 IF i = sid THEN failedSession(h, g.validProto)
                 ELSE sessions[i]]
    IN  /\ Alive
        /\ g.status = "101 Switching Protocols"
        /\ sid <= cap
        /\ upgradeRes' = g.status
        /\ activeConnections' =
             IF HasRegistry THEN activeConnections \cup {sid}
             ELSE activeConnections
        /\ IF variant \in RawVariants
           THEN sessions' = ss /\ proc' = proc
           ELSE sessions' = processEnds(ss) /\ proc' = "crashed"
        /\ UNCHANGED << configVars, client, now, authVars, shutdownLog, shutdownAt >>

UpgradeRequestWiringFails(h, path) == UpgradeWiringFails(h, path, MaxSessions)

\* deepgramWs.on('open')
UpstreamOpen(i) ==
    /\ Alive
    /\ i \in DOMAIN sessions
    /\ sessions[i].u = "CONNECTING"
    /\ sessions' = [sessions EXCEPT ![i].u = "OPEN"]
    /\ UNCHANGED << configVars, client, now, authVars, activeConnections, upgradeRes,
                    proc, shutdownLog, shutdownAt >>

\* The error handler notifying nobody.
onUpstreamError_silent(s) == s

\* deepgramWs.on('error', ...) of the raw relays and of part_002; part_001
\* registers none.
onUpstreamError(s) ==
    CASE variant \in RawVariants ->
           [s EXCEPT !.down = forward(@, ErrorFrame("PROVIDER_ERROR"), s.d)]
      [] variant = "telephony2" ->
           [s EXCEPT !.d = IF s.d = "OPEN" THEN "CLOSING" ELSE @,
                     !.dClose = IF s.d = "OPEN" THEN CloseNoCode ELSE @]
      [] OTHER -> s

\* The close handler dialling the upstream again.
onUpstreamClose_retry(s, code) ==
    [s EXCEPT !.u = "CONNECTING"]

\* deepgramWs.on('close', (code, reason) => ...)
onUpstreamClose(s, code) ==
    IF s.d # "OPEN" THEN s
    ELSE IF variant \in RawVariants
         THEN [s EXCEPT !.d = "CLOSING", !.dClose = CloseWith(closeCode(code))]
         ELSE [s EXCEPT !.d = "CLOSING", !.dClose = CloseNoCode]

\* An 'error' event on an emitter without an 'error' listener is thrown, and
\* nothing catches it: part_001 listens for 'error' on neither socket.
HasErrorListeners == variant # "telephony1"

\* The upstream connection is not established (refused, unexpected response,
\* bad handshake): ws sets the socket CLOSING and emits 'error' and then
\* 'close' with code 1006 in the same tick.
UpstreamOpenFails(i) ==
    /\ Alive
    /\ i \in DOMAIN sessions
    /\ sessions[i].u = "CONNECTING"
    /\ IF HasErrorListeners
       THEN /\ sessions' =
                 [sessions EXCEPT ![i] =
                    LET e == onUpstreamError([@ EXCEPT !.u = "CLOSING",
                                                       !.uHist = "failed"])
                    IN  onUpstreamClose([e EXCEPT !.u = "CLOSED"], 1006)]
            /\ proc' = proc
       ELSE /\ sessions' = processEnds([sessions EXCEPT ![i].u = "CLOSING",
                                                        ![i].uHist = "failed"])
            /\ proc' = "crashed"
    /\ UNCHANGED << configVars, client, now, authVars, activeConnections, upgradeRes,
                    shutdownLog, shutdownAt >>

\* The established upstream connection fails (a frame ws cannot accept): ws
\* starts closing the socket and emits 'error'; 'close' follows later.
UpstreamError(i) ==
    /\ Alive
    /\ i \in DOMAIN sessions
    /\ sessions[i].u = "OPEN"
    /\ IF HasErrorListeners
       THEN /\ sessions' =
                 [sessions EXCEPT ![i] =
                    onUpstreamError([@ EXCEPT !.u = "CLOSING",
                                              !.uHist = "error"])]
            /\ proc' = proc
       ELSE /\ sessions' = processEnds([sessions EXCEPT ![i].u = "CLOSING",
                                                        ![i].uHist = "error"])
            /\ proc' = "crashed"
    /\ UNCHANGED << configVars, client, now, authVars, activeConnections, upgradeRes,
                    shutdownLog, shutdownAt >>

\* The 'close' event of the upstream socket, with the code ws reports.
UpstreamClose(i, code) ==
    /\ Alive
    /\ i \in DOMAIN sessions
    /\ sessions[i].u \in {"OPEN", "CLOSING"}
    /\ sessions' = [sessions EXCEPT ![i] =
                      onUpstreamClose([@ EXCEPT !.u = "CLOSED"], code)]
    /\ UNCHANGED << configVars, client, now, authVars, activeConnections, upgradeRes,
                    proc, shutdownLog, shutdownAt >>

\* A text frame of the telephony relays as JSON.parse(msg) reads it: ok (the
\* text is JSON), the members event and type ("" for none), media (there is a
\* media object), and the members media.payload and audio, << >> where the
\* member is missing.
Json(event, type, media, payload, audio) ==
    [binary |-> FALSE, type |-> type, code |-> "", data |-> "", ok |-> TRUE,
     event |-> event, media |-> media, payload |-> payload, audio |-> audio]
NotJson == [Json("", "", FALSE, << >>, << >>) EXCEPT !.ok = FALSE]

\* What a handler did: the frames it sent, and whether it threw.
Sent(frames) == [sent |-> frames, thrown |-> FALSE]
Thrown == [sent |-> << >>, thrown |-> TRUE]

\* socket.send(frame) of ws: it throws on a socket that is still connecting,
\* sends on an open socket and drops the frame on a closing or closed one.
wsSend(frame, readyState) ==
    CASE readyState = "CONNECTING" -> Thrown
      [] readyState = "OPEN" -> Sent(<< frame >>)
      [] OTHER -> Sent(<< >>)

\* JSON.stringify({ type: "input_audio", audio: data.media.payload }) and
\* JSON.stringify({ event: "media", media: { payload: data.audio } }): a
\* member whose value is undefined is left out of the text.
InputAudio(audio) == Json("", "input_audio", FALSE, << >>, audio)
MediaOut(payload) == Json("media", "", TRUE, payload, << >>)

\* The body of twilioWs.on("message"): JSON.parse throws on a text that is
\* not JSON, data.media.payload throws where data.media is undefined.
onTwilioMessage(f, u) ==
    IF ~f.ok THEN Thrown
    ELSE IF f.event # "media" THEN Sent(<< >>)
    ELSE IF ~f.media THEN Thrown
    ELSE wsSend(InputAudio(f.payload), u)

\* The body of deepgramWs.on("message")
onDeepgramMessage(f, d) ==
    IF ~f.ok THEN Thrown
    ELSE IF f.type # "output_audio" THEN Sent(<< >>)
    ELSE wsSend(MediaOut(f.audio), d)

\* part_001 has the body of its message handlers in try/catch, part_002 has
\* not, and an exception that leaves a handler ends the process.
MessageHandlersCatch == variant = "telephony1"

\* ws emits 'message' on an open socket and on one that the relay itself has
\* begun to close (its close frame is out, the peer's has not arrived); a
\* socket that closes for an error or for the peer's close frame reads no
\* more.
DownstreamReads(s) ==
    s.d = "OPEN" \/ (s.d = "CLOSING" /\ s.dClose.called)
UpstreamReads(s) ==
    s.u = "OPEN" \/ (s.u = "CLOSING" /\ s.uHist = "")

\* clientWs.on('message', (data, isBinary) => ...) of the raw relays and
\* twilioWs.on("message", (msg) => ...) of the telephony relays
ClientMessage(i, f) ==
    /\ Alive
    /\ i \in DOMAIN sessions
    /\ sessions[i].wired
    /\ DownstreamReads(sessions[i])
    /\ sessions[i].cIn + sessions[i].uIn < MaxFrames
    /\ IF variant \in RawVariants
       THEN /\ sessions' = [sessions EXCEPT
                              ![i].cIn = @ + 1,
                              ![i].up = forward(@, f, sessions[i].u)]
            /\ proc' = proc
       ELSE LET r == onTwilioMessage(f, sessions[i].u)
                ss == [sessions EXCEPT ![i].cIn = @ + 1,
                                       ![i].up = @ \o r.sent]
            IN  IF r.thrown /\ ~MessageHandlersCatch
                THEN sessions' = processEnds(ss) /\ proc' = "crashed"
                ELSE sessions' = ss /\ proc' = proc
    /\ UNCHANGED << configVars, client, now, authVars, activeConnections, upgradeRes,
                    shutdownLog, shutdownAt >>

\* deepgramWs.on('message', (data, isBinary) => ...) of the raw relays and
\* deepgramWs.on("message", (msg) => ...) of the telephony relays
UpstreamMessage(i, f) ==
    /\ Alive
    /\ i \in DOMAIN sessions
    /\ UpstreamReads(sessions[i])
    /\ sessions[i].cIn + sessions[i].uIn < MaxFrames
    /\ IF variant \in RawVariants
       THEN /\ sessions' = [sessions EXCEPT
                              ![i].uIn = @ + 1,
                              ![i].down = forward(@, f, sessions[i].d)]
            /\ proc' = proc
       ELSE LET r == onDeepgramMessage(f, sessions[i].d)
                ss == [sessions EXCEPT ![i].uIn = @ + 1,
                                       ![i].down = @ \o r.sent]
            IN  IF r.thrown /\ ~MessageHandlersCatch
                THEN sessions' = processEnds(ss) /\ proc' = "crashed"
                ELSE sessions' = ss /\ proc' = proc
    /\ UNCHANGED << configVars, client, now, authVars, activeConnections, upgradeRes,
                    shutdownLog, shutdownAt >>

\* The upstream readyState after the downstream handlers' close of it:
\* if (deepgramWs.readyState === WebSocket.OPEN) deepgramWs.close() in the
\* raw relays and part_002, deepgramWs.close() in part_001.
closeUpstream(u) ==
    IF variant = "telephony1"
    THEN IF u \in {"CONNECTING", "OPEN"} THEN "CLOSING" ELSE u
    ELSE IF u = "OPEN" THEN "CLOSING" ELSE u

\* The 'close' event of the downstream socket (the downstream went away, or
\* the closing handshake the relay began is over) and clientWs.on('close').
\* A session whose wiring failed has no handler.  In part_001 close() on a
\* connecting upstream makes ws emit 'error', which has no listener.
ClientClose(i) ==
    /\ Alive
    /\ i \in DOMAIN sessions
    /\ sessions[i].d # "CLOSED"
    /\ activeConnections' =
         IF HasRegistry /\ sessions[i].wired
         THEN activeConnections \ {i}
         ELSE activeConnections
    /\ LET ss == [sessions EXCEPT
                    ![i].d = "CLOSED",
                    ![i].u = IF sessions[i].wired THEN closeUpstream(@) ELSE @]
       IN  IF /\ ~HasErrorListeners
              /\ sessions[i].wired
              /\ sessions[i].u = "CONNECTING"
           THEN sessions' = processEnds(ss) /\ proc' = "crashed"
           ELSE sessions' = ss /\ proc' = proc
    /\ UNCHANGED << configVars, client, now, authVars, upgradeRes, shutdownLog,
                    shutdownAt >>

\* The downstream connection fails (a frame ws cannot accept): ws starts
\* closing the socket and emits 'error'; clientWs.on('error').
ClientError(i) ==
    /\ Alive
    /\ i \in DOMAIN sessions
    /\ sessions[i].wired
    /\ sessions[i].d = "OPEN"
    /\ IF HasErrorListeners
       THEN /\ sessions' = [sessions EXCEPT ![i].d = "CLOSING",
                                            ![i].u = closeUpstream(@)]
            /\ proc' = proc
       ELSE /\ sessions' = processEnds([sessions EXCEPT ![i].d = "CLOSING"])
            /\ proc' = "crashed"
    /\ UNCHANGED << configVars, client, now, authVars, activeConnections, upgradeRes,
                    shutdownLog, shutdownAt >>

\* The raw relays run without a built frontend, so that no page and no nonce
\* is served: the nonce authority is checked under SpecAuth.
InitRelay == Init /\ ~indexHtmlTemplate /\ variant \in RawVariants

Next ==
    \/ Tick(HourMs, BootMs + MaxHours * HourMs)
    \/ \E h \in NonceHeaders : SessionRequest(h)
    \/ \E h \in Headers : \E path \in Paths : UpgradeRequest(h, path)
    \/ \E i \in 1..MaxSessions : UpstreamOpen(i)
    \/ \E i \in 1..MaxSessions : ClientClose(i)

Spec == InitRelay /\ [][Next]_vars

----------------------------------------------------------------------------
(* The frames of a session, in the raw relays *)

\* Headers of the upgrade requests of well-behaved clients: none, or a token
\* the session endpoint issued.
SessionHeaders == {NoHeader} \cup {Hdr(<< TokenEntry(t) >>) : t \in issued}

InitFrames == Init /\ ~indexHtmlTemplate /\ ~externalSecret
                   /\ variant \in RawVariants

NextFrames ==
    \/ SessionRequest(<< >>)
    \/ \E h \in SessionHeaders : \E path \in Paths : UpgradeRequest(h, path)
    \/ \E i \in 1..MaxSessions : UpstreamOpen(i)
    \/ \E i \in 1..MaxSessions : \E f \in Frames : ClientMessage(i, f)
    \/ \E i \in 1..MaxSessions : \E f \in Frames : UpstreamMessage(i, f)
    \/ \E i \in 1..MaxSessions : ClientClose(i)

SpecFrames == InitFrames /\ [][NextFrames]_vars

----------------------------------------------------------------------------
(* Frames and the end of a session, in the raw relays *)

\* One kind of frame is enough where only its fate matters.
AudioFrame == Frame(TRUE, "audio")

NextTeardown ==
    \/ SessionRequest(<< >>)
    \/ \E h \in SessionHeaders : UpgradeRequest(h, "/api/voice-agent")
    \/ \E h \in SessionHeaders : UpgradeRequestWiringFails(h, "/api/voice-agent")
    \/ \E i \in 1..MaxSessions : UpstreamOpen(i)
    \/ \E i \in 1..MaxSessions : UpstreamOpenFails(i)
    \/ \E i \in 1..MaxSessions : UpstreamError(i)
    \/ \E i \in 1..MaxSessions : UpstreamClose(i, 1000)
    \/ \E i \in 1..MaxSessions : ClientMessage(i, AudioFrame)
    \/ \E i \in 1..MaxSessions : UpstreamMessage(i, AudioFrame)
    \/ \E i \in 1..MaxSessions : ClientClose(i)
    \/ \E i \in 1..MaxSessions : ClientError(i)

\* The relay of part_000 and the first relay of server.js.
InitTeardown == InitFrames /\ variant \in {"auth", "callerKey"}

SpecTeardown == InitTeardown /\ [][NextTeardown]_vars

----------------------------------------------------------------------------
(* The life of a session, in every relay *)

\* No external secret and no built frontend: a token is had without a nonce.
InitSession == Init /\ ~indexHtmlTemplate /\ ~externalSecret

NextSession ==
    \/ SessionRequest(<< >>)
    \/ \E h \in SessionHeaders : \E path \in Paths : UpgradeRequest(h, path)
    \/ \E h \in SessionHeaders : \E path \in Paths :
          UpgradeRequestWiringFails(h, path)
    \/ \E i \in 1..MaxSessions : UpstreamOpen(i)
    \/ \E i \in 1..MaxSessions : UpstreamOpenFails(i)
    \/ \E i \in 1..MaxSessions : UpstreamError(i)
    \/ \E i \in 1..MaxSessions : \E c \in UpstreamCloseCodes : UpstreamClose(i, c)
    \/ \E i \in 1..MaxSessions : ClientClose(i)
    \/ \E i \in 1..MaxSessions : ClientError(i)

SpecSession == InitSession /\ [][NextSession]_vars

\* ws ends what it began: a socket that is CLOSING gets its 'close' event (the
\* closing handshake has a timeout, a failed socket is destroyed).
SpecSessionLive ==
    /\ SpecSession
    /\ \A i \in 1..MaxSessions :
         /\ WF_vars(/\ i \in DOMAIN sessions
                    /\ sessions[i].d = "CLOSING"
                    /\ ClientClose(i))
         /\ WF_vars(/\ i \in DOMAIN sessions
                    /\ sessions[i].u = "CLOSING"
                    /\ \E c \in UpstreamCloseCodes : UpstreamClose(i, c))

----------------------------------------------------------------------------
(* The telephony adapter *)

\* Base64 audio of two frames.
Payloads == {"QUJD", "REVG"}

\* Frames of the telephony side: media with a payload, a media object
\* without payload, a media event without media object, another event, a
\* text that is not JSON.
TwilioFrames ==
    {Json("media", "", TRUE, << p >>, << >>) : p \in Payloads}
      \cup {Json("media", "", TRUE, << >>, << >>),
            Json("media", "", FALSE, << >>, << >>),
            Json("start", "", FALSE, << >>, << >>),
            NotJson}

\* Frames of the provider: output_audio with and without audio, another
\* type, something that is not JSON (a binary frame of audio is not).
DeepgramFrames ==
    {Json("", "output_audio", FALSE, << >>, << a >>) : a \in Payloads}
      \cup {Json("", "output_audio", FALSE, << >>, << >>),
            Json("", "Welcome", FALSE, << >>, << >>),
            NotJson}

InitTelephony == Init /\ variant \in TelephonyVariants

NextTelephony ==
    \/ \E path \in Paths : UpgradeRequest(NoHeader, path)
    \/ \E path \in Paths : UpgradeRequestWiringFails(NoHeader, path)
    \/ \E i \in 1..MaxSessions : UpstreamOpen(i)
    \/ \E i \in 1..MaxSessions : \E f \in TwilioFrames : ClientMessage(i, f)
    \/ \E i \in 1..MaxSessions : \E f \in DeepgramFrames : UpstreamMessage(i, f)
    \/ \E i \in 1..MaxSessions : \E c \in UpstreamCloseCodes : UpstreamClose(i, c)
    \/ \E i \in 1..MaxSessions : ClientClose(i)

SpecTelephony == InitTelephony /\ [][NextTelephony]_vars

----------------------------------------------------------------------------
(* Two sessions at a time *)

\* One frame that is forwarded and, in a telephony relay, one that is not
\* JSON.
PairClientFrames ==
    IF variant \in RawVariants THEN {Frame(TRUE, "audio")}
    ELSE {Json("media", "", TRUE, << "QUJD" >>, << >>), NotJson}
PairUpstreamFrames ==
    IF variant \in RawVariants THEN {Frame(TRUE, "audio")}
    ELSE {Json("", "output_audio", FALSE, << >>, << "QUJD" >>), NotJson}

InitPair == InitSession /\ variant \in {"auth", "telephony2"}

NextPair ==
    \/ SessionRequest(<< >>)
    \/ \E h \in SessionHeaders : \E path \in Paths :
          Upgrade(h, path, MaxSessions + 1)
    \/ \E i \in 1..MaxSessions + 1 : UpstreamOpen(i)
    \/ \E i \in 1..MaxSessions + 1 : UpstreamError(i)
    \/ \E i \in 1..MaxSessions + 1 : UpstreamClose(i, 1000)
    \/ \E i \in 1..MaxSessions + 1 : \E f \in PairClientFrames :
          ClientMessage(i, f)
    \/ \E i \in 1..MaxSessions + 1 : \E f \in PairUpstreamFrames :
          UpstreamMessage(i, f)
    \/ \E i \in 1..MaxSessions + 1 : ClientClose(i)
    \/ \E i \in 1..MaxSessions + 1 : ClientError(i)

SpecPair == InitPair /\ [][NextPair]_vars

----------------------------------------------------------------------------
(* One token, several upgrades: the token relays *)

InitAdmit == InitSession /\ variant \in {"auth", "jwt"}

NextAdmit ==
    \/ Tick(HourMs, BootMs + MaxHours * HourMs)
    \/ SessionRequest(<< >>)
    \/ \E h \in SessionHeaders : \E path \in Paths :
          Upgrade(h, path, MaxSessions + 1)
    \/ \E i \in 1..MaxSessions + 1 : UpstreamOpen(i)
    \/ \E i \in 1..MaxSessions + 1 : ClientClose(i)

SpecAdmit == InitAdmit /\ [][NextAdmit]_vars

----------------------------------------------------------------------------
(* Shutdown: gracefulShutdown of part_000, shutdown of server.js *)

\* process.on(...): part_000 listens for the two signals and the two kinds
\* of fault, server.js (the relay with the caller's key) for the signals.
Signals == {"SIGTERM", "SIGINT"}
Faults == {"UNCAUGHT_EXCEPTION", "UNHANDLED_REJECTION"}
HasHandler(t) ==
    \/ variant = "auth" /\ t \in Signals \cup Faults
    \/ variant = "callerKey" /\ t \in Signals

\* setTimeout(() => { ...; process.exit(1) }, 10000) in part_000, 5000 in
\* server.js
GraceMs == IF variant = "auth" THEN 10000 ELSE 5000

\* The sockets the handler closes: activeConnections.forEach in part_000,
\* wss.clients.forEach (the sockets ws has not seen closed) in server.js.
shutdownTargets ==
    IF variant = "auth" THEN activeConnections
    ELSE {i \in DOMAIN sessions : sessions[i].d # "CLOSED"}

\* One call of a shutdown handler: op, the session closed and the close code
\* (0 for a close() without arguments), or the delay of the timer.
Call(op, sid, arg) == [op |-> op, sid |-> sid, arg |-> arg]

\* forEach visits a Set in insertion order: the calls of close, ws.close(1001,
\* 'Server shutting down') in part_000 and client.close() in server.js.
RECURSIVE closeCalls(_)
closeCalls(S) ==
    IF S = {} THEN << >>
    ELSE LET i == CHOOSE x \in S : \A y \in S : x <= y
         IN  << Call("ws.close", i, IF variant = "auth" THEN 1001 ELSE 0) >>
               \o closeCalls(S \ {i})

\* The calls of the handler, in the order of the code.
shutdownCalls ==
    IF variant = "auth"
    THEN << Call("wss.close", 0, 0) >> \o closeCalls(shutdownTargets)
           \o << Call("server.close", 0, 0), Call("setTimeout", 0, GraceMs) >>
    ELSE closeCalls(shutdownTargets)
           \o << Call("wss.close", 0, 0), Call("server.close", 0, 0),
                 Call("setTimeout", 0, GraceMs) >>

\* The shutdown handler closing whatever it finds, with its own code.
closeDownstream_again(s) ==
    [s EXCEPT !.d = IF @ = "CLOSED" THEN @ ELSE "CLOSING",
              !.dClose = IF variant = "auth" THEN CloseWith(1001)
                         ELSE CloseNoCode]

\* close(code) on a socket: an open socket sends the close frame and is
\* CLOSING, a socket that is closing or closed is left as it is.
closeDownstream(s) ==
    IF s.d # "OPEN" THEN s
    ELSE [s EXCEPT !.d = "CLOSING",
                   !.dClose = IF variant = "auth" THEN CloseWith(1001)
                              ELSE CloseNoCode]

\* How often a shutdown handler has run: each run sets one timer.
Runs(log) == Cardinality({k \in DOMAIN log : log[k].op = "setTimeout"})

\* The signal or the fault t reaches the process.  With a handler for it the
\* shutdown begins, or the handler runs once more (nothing keeps it from
\* running again: its calls are made again, and its timer is due after the
\* first one); a fault without a handler ends the process.  At most runs
\* runs of a handler are followed.
TriggerUpTo(t, runs) ==
    /\ Alive
    /\ IF HasHandler(t)
       THEN /\ Runs(shutdownLog) < runs
            /\ proc' = "shuttingDown"
            /\ shutdownLog' = shutdownLog \o shutdownCalls
            /\ shutdownAt' = IF proc = "running" THEN now ELSE shutdownAt
            /\ sessions' = [i \in DOMAIN sessions |->
                              IF i \in shutdownTargets
                              THEN closeDownstream(sessions[i])
                              ELSE sessions[i]]
       ELSE /\ t = "UNCAUGHT_EXCEPTION"
            /\ proc' = "crashed"
            /\ sessions' = processEnds(sessions)
            /\ UNCHANGED << shutdownLog, shutdownAt >>
    /\ UNCHANGED << configVars, client, now, authVars, activeConnections, upgradeRes >>

\* The signal or fault that begins the shutdown.
Trigger(t) == TriggerUpTo(t, 1)

\* server.close(() => { ...; process.exit(0) }): the callback runs when the
\* server has stopped listening and every connection has ended.
ServerClosed ==
    /\ proc = "shuttingDown"
    /\ \A i \in DOMAIN sessions : sessions[i].d = "CLOSED"
    /\ proc' = "exited0"
    /\ UNCHANGED << configVars, client, now, authVars, sessions, activeConnections,
                    upgradeRes, shutdownLog, shutdownAt >>

\* The timer of the handler fires: process.exit(1)
GraceTimer ==
    /\ proc = "shuttingDown"
    /\ now >= shutdownAt + GraceMs
    /\ proc' = "exited1"
    /\ sessions' = processEnds(sessions)
    /\ UNCHANGED << configVars, client, now, authVars, activeConnections, upgradeRes,
                    shutdownLog, shutdownAt >>

\* The clock of a shutdown: a timer that is due fires before more time
\* passes, and no time is followed after the process has ended.
GraceTickLimit ==
    CASE proc = "running" -> BootMs + MaxGraceTicks * GraceTickMs
      [] proc = "shuttingDown" -> shutdownAt + GraceMs + GraceTickMs - 1
      [] OTHER -> now

InitShutdown == Init /\ ~indexHtmlTemplate /\ ~externalSecret
                     /\ variant \in {"auth", "callerKey"}

NextShutdown ==
    \/ Tick(GraceTickMs, GraceTickLimit)
    \/ SessionRequest(<< >>)
    \/ \E h \in SessionHeaders : \E path \in Paths : UpgradeRequest(h, path)
    \/ \E i \in 1..MaxSessions : UpstreamOpen(i)
    \/ \E i \in 1..MaxSessions : ClientClose(i)
    \/ \E t \in Signals \cup Faults : Trigger(t)
    \/ ServerClosed
    \/ GraceTimer

SpecShutdown == InitShutdown /\ [][NextShutdown]_vars

\* Time passes, a due timer fires and a callback that can run does.
SpecShutdownLive ==
    /\ SpecShutdown
    /\ WF_vars(Tick(GraceTickMs, GraceTickLimit))
    /\ WF_vars(GraceTimer)
    /\ WF_vars(ServerClosed)

----------------------------------------------------------------------------
(* Every way a session's downstream gets closed, the shutdown handler running
   more than once *)

NextClosing ==
    \/ SessionRequest(<< >>)
    \/ \E h \in SessionHeaders : UpgradeRequest(h, "/api/voice-agent")
    \/ \E h \in SessionHeaders : UpgradeRequestWiringFails(h, "/api/voice-agent")
    \/ \E i \in 1..MaxSessions : UpstreamOpen(i)
    \/ \E i \in 1..MaxSessions : UpstreamOpenFails(i)
    \/ \E i \in 1..MaxSessions : UpstreamError(i)
    \/ \E i \in 1..MaxSessions : \E c \in UpstreamCloseCodes : UpstreamClose(i, c)
    \/ \E i \in 1..MaxSessions : ClientClose(i)
    \/ \E i \in 1..MaxSessions : ClientError(i)
    \/ \E t \in Signals \cup Faults : TriggerUpTo(t, MaxTriggers)
    \/ ServerClosed

SpecClosing == InitShutdown /\ [][NextClosing]_vars

----------------------------------------------------------------------------
(* The bundled client, frontend/main.js.  client.socks are the WebSockets the
   page created, in the order of their creation: rs is the readyState,
   welcomes the number of Welcome messages the socket delivered, applied
   whether it delivered SettingsApplied.  client.sent are the frames the page
   sent, each with its socket, client.rcv counts the messages delivered.
   client.ws is state.ws (0 for null); micArmed and micLate count the
   getUserMedia calls that are pending with their timer armed and with their
   timer gone. *)

NewSocket == [rs |-> "CONNECTING", welcomes |-> 0, applied |-> FALSE]

\* A frame sent on socket k
Out(k, frame) == [sock |-> k, frame |-> frame]

\* Messages of the agent that the page acts on.
ServerMessages == {"Welcome", "SettingsApplied", "CLIENT_MESSAGE_TIMEOUT"}

\* WebSocket.close() of the browser: the socket is CLOSING at once, and
\* closing or closed it stays as it is.
wsClose(rs) == IF rs \in {"CONNECTING", "OPEN"} THEN "CLOSING" ELSE rs

\* if (state.ws && state.ws.readyState === WebSocket.OPEN) state.ws.send(...)
sendMessage(c, frame) ==
    IF c.ws # 0 /\ c.socks[c.ws].rs = "OPEN"
    THEN [c EXCEPT !.sent = Append(@, Out(c.ws, frame))]
    ELSE c

\* disconnect()
disconnect(c) ==
    [c EXCEPT !.socks = IF c.ws # 0 THEN [@ EXCEPT ![c.ws].rs = wsClose(@)]
                        ELSE @,
              !.ws = 0,
              !.audioProcessor = FALSE,
              !.mediaStream = FALSE,
              !.isConnected = FALSE,
              !.hasUnsavedChanges = FALSE,
              !.connectBtnDisabled = FALSE,
              !.disconnectHidden = TRUE]

\* onConnected() up to the await inside startMicrophone(): the awaits before
\* it resolve at once.  startMicrophone returns if there is a media stream,
\* and else arms its timer and asks for the microphone.
onConnected(c) ==
    LET d == [c EXCEPT !.isConnected = TRUE, !.disconnectHidden = FALSE]
    IN  IF d.mediaStream THEN d ELSE [d EXCEPT !.micArmed = @ + 1]

\* handleJSONMessage(message)
handleJSONMessage(c, m) ==
    CASE m = "Welcome" -> sendMessage(c, "Settings")
      [] m = "SettingsApplied" -> onConnected(c)
      [] m = "CLIENT_MESSAGE_TIMEOUT" -> disconnect(c)
      [] OTHER -> c

\* sendTextMessage without the test of state.isConnected.
sendTextMessage_unguarded(c) ==
    sendMessage(c, "InjectUserMessage")

\* sendTextMessage() with a text in the input
sendTextMessage(c) ==
    IF ~c.isConnected THEN c ELSE sendMessage(c, "InjectUserMessage")

\* onaudioprocess of the script processor
onaudioprocess(c) ==
    IF ~c.isConnected THEN c ELSE sendMessage(c, "audio")

\* updateSettings(): "Update" is the UpdateListen, UpdateSpeak or UpdateThink
\* message of the setting that was changed.
updateSettings(c) ==
    IF ~c.isConnected \/ ~c.hasUnsavedChanges THEN c
    ELSE [sendMessage(c, "Update") EXCEPT !.hasUnsavedChanges = FALSE]

\* More frames may be sent.
MaySend == Len(client.sent) < MaxTraffic

ClientStep(c) ==
    /\ client' = c
    /\ UNCHANGED << configVars, now, authVars, relayVars >>

\* A click on the connect button, which a disabled button does not take:
\* connect().  new WebSocket(wsUrl) does not throw for the URL the page
\* builds from its own location.
Connect ==
    /\ ~client.connectBtnDisabled
    /\ Len(client.socks) < MaxSockets
    /\ ClientStep(IF client.isConnected THEN client
                  ELSE [client EXCEPT !.connectBtnDisabled = TRUE,
                                      !.socks = Append(@, NewSocket),
                                      !.ws = Len(client.socks) + 1])

\* The 'open' event of socket k: handleWebSocketOpen only logs.
SocketOpen(k) ==
    /\ k \in DOMAIN client.socks
    /\ client.socks[k].rs = "CONNECTING"
    /\ ClientStep([client EXCEPT !.socks[k].rs = "OPEN"])

\* A 'message' event of socket k, which the browser delivers on an open
\* socket only: handleWebSocketMessage
ServerMessage(k, m) ==
    /\ k \in DOMAIN client.socks
    /\ client.socks[k].rs = "OPEN"
    /\ client.rcv < MaxTraffic
    /\ m = "Welcome" => MaySend
    /\ ClientStep(handleJSONMessage(
                    [client EXCEPT
                       !.rcv = @ + 1,
                       !.socks[k].welcomes = IF m = "Welcome" THEN @ + 1 ELSE @,
                       !.socks[k].applied = @ \/ m = "SettingsApplied"], m))

\* The 'close' event of socket k (the closing handshake is over, the server
\* closed, or the connection was lost): handleWebSocketClose
SocketClosed(k) ==
    /\ k \in DOMAIN client.socks
    /\ client.socks[k].rs # "CLOSED"
    /\ ClientStep(disconnect([client EXCEPT !.socks[k].rs = "CLOSED"]))

\* A click on the disconnect button, which is in a container that is hidden
\* until onConnected shows it
DisconnectClick ==
    /\ ~client.disconnectHidden
    /\ ClientStep(disconnect(client))

\* getUserMedia resolves: the rest of startMicrophone(), which clears its
\* timer and installs the audio processor
MicGranted ==
    /\ client.micArmed + client.micLate > 0
    /\ \E late \in {b \in BOOLEAN : IF b THEN client.micLate > 0
                                     ELSE client.micArmed > 0} :
          ClientStep([client EXCEPT
                        !.micLate = IF late THEN @ - 1 ELSE @,
                        !.micArmed = IF late THEN @ ELSE @ - 1,
                        !.mediaStream = TRUE,
                        !.audioProcessor = TRUE])

\* getUserMedia rejects: the catch of startMicrophone()
MicDenied ==
    /\ client.micArmed + client.micLate > 0
    /\ \E late \in {b \in BOOLEAN : IF b THEN client.micLate > 0
                                     ELSE client.micArmed > 0} :
          ClientStep(disconnect([client EXCEPT
                                   !.micLate = IF late THEN @ - 1 ELSE @,
                                   !.micArmed = IF late THEN @ ELSE @ - 1]))

\* The 10 s timer of a startMicrophone() whose getUserMedia is pending
MicTimeout ==
    /\ client.micArmed > 0
    /\ LET c == [client EXCEPT !.micArmed = @ - 1, !.micLate = @ + 1]
       IN  ClientStep(IF ~c.mediaStream THEN disconnect(c) ELSE c)

\* The script processor has a buffer of samples
AudioProcess ==
    /\ client.audioProcessor
    /\ MaySend
    /\ ClientStep(onaudioprocess(client))

\* A click on the send button, or Enter in the message input
SendText ==
    /\ MaySend
    /\ ClientStep(sendTextMessage(client))

\* A change of a configuration input: onConfigChange(), the value differing
\* from the one the session began with
ConfigChange ==
    /\ client.isConnected
    /\ ClientStep([client EXCEPT !.hasUnsavedChanges = TRUE])

\* A click on the update button
UpdateSettings ==
    /\ MaySend
    /\ ClientStep(updateSettings(client))

InitClient == Init /\ variant = "auth" /\ ~externalSecret /\ ~indexHtmlTemplate

NextClient ==
    \/ Connect
    \/ \E k \in 1..MaxSockets : SocketOpen(k)
    \/ \E k \in 1..MaxSockets : \E m \in ServerMessages : ServerMessage(k, m)
    \/ \E k \in 1..MaxSockets : SocketClosed(k)
    \/ DisconnectClick
    \/ MicGranted
    \/ MicDenied
    \/ MicTimeout
    \/ AudioProcess
    \/ SendText
    \/ ConfigChange
    \/ UpdateSettings

SpecClient == InitClient /\ [][NextClient]_vars

----------------------------------------------------------------------------
(* Properties of the nonce authority, checked under SpecAuth *)

FiveMinutesMs == 5 * 60 * 1000

\* The nonce v is in the store and the clock is before its expiry.
LiveNonce(v) == v \in DOMAIN sessionNonces /\ now < sessionNonces[v]

\* C1: a nonce validates at most once: over all consumeNonce calls with one
\* value returned by generateNonce, at most one returns true.
C1_NonceValidatesAtMostOnce == \A n \in Nonces : accepted[n] <= 1

\* C1 witness: a nonce was accepted once and a later call with the same
\* value returned false.
C1_Witness ==
    \E n \in Nonces :
        /\ accepted[n] = 1
        /\ lastConsume = [v |-> n, present |-> FALSE, ret |-> FALSE]

\* C2: every consumeNonce call made five minutes or more after the nonce was
\* issued returns false (and the request is refused), swept or not.
C2_NonceExpiresAfterTtl ==
    [][\A v \in Nonces :
         (/\ REQUIRE_NONCE
          /\ v \in DOMAIN mintedAt
          /\ now >= mintedAt[v] + FiveMinutesMs
          /\ SessionRequest(<< v >>))
         => (~lastConsume'.ret /\ lastConsume'.v = v /\ ~res'.token)]_vars

\* C2 witness: a nonce that was still in the store (not swept) was presented
\* five minutes or more after its issue and was rejected.
C2_Witness ==
    /\ lastConsume.v \in DOMAIN mintedAt
    /\ now >= mintedAt[lastConsume.v] + FiveMinutesMs
    /\ lastConsume.present
    /\ ~lastConsume.ret

\* C3: consumeNonce(v) returns true exactly when v is in the store and not
\* expired; a stored v is deleted by the call whether or not it is expired;
\* a call with an absent v returns false and leaves the store unchanged.
C3_ConsumeContract ==
    [][\A v \in NonceValues :
         (REQUIRE_NONCE /\ SessionRequest(<< v >>))
         => /\ lastConsume'.v = v
            /\ lastConsume'.ret = LiveNonce(v)
            /\ v \in DOMAIN sessionNonces
                 => sessionNonces' = [x \in DOMAIN sessionNonces \ {v} |->
                                        sessionNonces[x]]
            /\ v \notin DOMAIN sessionNonces
                 => (~lastConsume'.ret /\ sessionNonces' = sessionNonces)]_vars

\* C3 witness: an expired nonce that was still stored was presented; the call
\* returned false and the nonce is gone.
C3_Witness ==
    /\ lastConsume.present
    /\ ~lastConsume.ret
    /\ lastConsume.v \notin DOMAIN sessionNonces
    /\ sessionNonces # << >>

OneHourS == 60 * 60

\* C4 (checked under SpecTok): validateWsToken accepts the token of a header
\* exactly when the token is signed with this process's secret and the clock
\* is less than one hour past its issue; every token the session endpoint
\* issued is signed with that secret and stamped with its time of issue, so
\* it validates throughout that hour; an expired token or one signed with
\* another secret is rejected.
C4_TokenValidation ==
    [][/\ \A t \in issued' :
             t.sig = SESSION_SECRET /\ t.iat <= NowS(now') /\ NowS(BootMs) <= t.iat
       /\ \A h \in OneValueHeaders :
             ValidateCall(h)
             => LET toks == {i \in 1..Len(h.list) : h.list[i].pfx = "access_token."}
                    t == h.list[CHOOSE i \in toks : \A j \in toks : i <= j].tok
                IN  lastValidate'.ok
                      = (/\ h.present
                         /\ toks # {}
                         /\ t.sig = SESSION_SECRET
                         /\ NowS(now) < t.iat + OneHourS)]_vars

\* C4 witness: a token the endpoint issued was validated successfully fifty
\* minutes or more after its issue.
C4_Witness ==
    /\ lastValidate.ok
    /\ lastValidate.tok \in issued
    /\ NowS(now) >= lastValidate.tok.iat + 50 * 60

\* C5: with nonce enforcement active the session endpoint issues a token only
\* to a request whose x-session-nonce value is live in the store; every other
\* request (missing, unknown, used or expired nonce) gets the INVALID_NONCE
\* error with a 4xx status and no token.
C5_TokenOnlyForValidNonce ==
    [][\A h \in NonceHeaders :
         (REQUIRE_NONCE /\ SessionRequest(h))
         => IF h # << >> /\ LiveNonce(h[1])
            THEN res'.status = 200 /\ res'.token /\ issued' # {}
            ELSE /\ res'.status \in 400..499
                 /\ res'.type = "AuthenticationError"
                 /\ res'.code = "INVALID_NONCE"
                 /\ ~res'.token
                 /\ issued' = issued]_vars

\* C5 witness: enforcement is active, a token was issued before, and the last
\* request, which presented a nonce no longer in the store, was refused.
C5_Witness ==
    /\ REQUIRE_NONCE
    /\ res = InvalidNonceRes
    /\ issued # {}
    /\ lastConsume.v \in DOMAIN mintedAt
    /\ ~lastConsume.present

\* C6 as stated: with an external secret no token is issued to a request
\* without a valid nonce; without one every request is issued a token and the
\* nonce store is left unchanged.
C6_EnforcementIffExternalSecret ==
    [][\A h \in NonceHeaders :
         SessionRequest(h)
         => IF externalSecret
            THEN res'.token => (h # << >> /\ LiveNonce(h[1]))
            ELSE res'.token /\ sessionNonces' = sessionNonces]_vars

----------------------------------------------------------------------------
(* Properties of the upgrade gate and the upstream credential, under Spec *)

\* Some access_token.* value of the header holds a token signed with this
\* process's secret that is not yet one hour old.
CarriesValidToken(h) ==
    /\ h.present
    /\ \E i \in 1..Len(h.list) :
         /\ h.list[i].pfx = "access_token."
         /\ h.list[i].tok.sig = SESSION_SECRET
         /\ NowS(now) < h.list[i].tok.iat + OneHourS

\* C7 as stated: in the token relays an upgrade request on the relay path
\* that carries no valid token is answered 401 Unauthorized, and creates no
\* session, no registry entry and no upstream connection.
C7_NoTokenNoSession ==
    [][\A h \in Headers : \A path \in Paths :
         (/\ variant \in {"auth", "jwt"}
          /\ RelayPath(path)
          /\ ~CarriesValidToken(h)
          /\ UpgradeRequest(h, path))
         => (/\ upgradeRes' = "401 Unauthorized"
             /\ sessions' = sessions
             /\ activeConnections' = activeConnections)]_vars

\* C8: in part_000 the subprotocol echoed on a successful upgrade is the
\* access_token.<token> value that validateWsToken checked and returned,
\* also when several values were offered.
C8_EchoIsValidatedProtocol ==
    variant = "auth" =>
        \A i \in DOMAIN sessions :
            /\ sessions[i].validProto # NoEntry
            /\ sessions[i].protocol = sessions[i].validProto
            /\ sessions[i].protocol.pfx = "access_token."
            /\ sessions[i].protocol.tok.sig = SESSION_SECRET

\* C8 witness: part_000 admitted a request that offered two subprotocol
\* values and echoed an access_token value.
C8_Witness ==
    /\ variant = "auth"
    /\ \E i \in DOMAIN sessions :
         /\ sessions[i].offered = 2
         /\ sessions[i].protocol.pfx = "access_token."

\* C9: in the token relays every upstream connection is opened with
\* Authorization "Token <server key>", whatever the client sent.
C9_UpstreamUsesServerKey ==
    variant \in {"auth", "jwt"} =>
        \A i \in DOMAIN sessions :
            sessions[i].auth =
                [scheme |-> "Token ", cred |-> << PlainEntry("DEEPGRAM_API_KEY") >>]

\* C9 witness: a token relay holds a session whose client offered
\* subprotocol values and whose upstream connection is open.
C9_Witness ==
    /\ variant \in {"auth", "jwt"}
    /\ \E i \in DOMAIN sessions :
         /\ sessions[i].offered > 0
         /\ sessions[i].u = "OPEN"

\* C10: in the relay that accepts a caller credential the upstream
\* Authorization is "Token " followed by the caller's subprotocol header
\* value when the request has one and by the server's key when it has none,
\* and the credential is never empty.
C10_CallerCredentialVerbatim ==
    [][variant = "callerKey" =>
         \A h \in Headers : \A path \in Paths :
           (UpgradeRequest(h, path) /\ sessions' # sessions)
           => LET s == sessions'[Cardinality(DOMAIN sessions) + 1]
              IN  /\ s.auth.scheme = "Token "
                  /\ s.auth.cred # << >>
                  /\ h.present => s.auth.cred = h.list
                  /\ ~h.present =>
                       s.auth.cred = << PlainEntry("DEEPGRAM_API_KEY") >>]_vars

\* C10 witness: the relay opened an upstream connection with a credential
\* that the caller supplied.
C10_Witness ==
    /\ variant = "callerKey"
    /\ \E i \in DOMAIN sessions :
         /\ sessions[i].offered > 0
         /\ sessions[i].auth.cred # << PlainEntry("DEEPGRAM_API_KEY") >>
         /\ sessions[i].auth.cred[1] = sessions[i].protocol

----------------------------------------------------------------------------
(* Properties of the frames of a session, checked under SpecFrames *)

\* C11 as stated: every frame the downstream sends during a session is
\* received by the upstream, in the order sent, with its type and bytes.
C11_EveryFrameReachesUpstream ==
    [][\A i \in 1..MaxSessions : \A f \in Frames :
         ClientMessage(i, f)
         => sessions'[i].up = Append(sessions[i].up, f)]_vars

\* C12: a frame that arrives on one side of a session is forwarded at once,
\* once, as the last frame sent so far on the other side, with its type and
\* bytes, when the other side is open (and not at all when it is not); what
\* was sent in the opposite direction neither changes nor matters.
C12_ForwardedInArrivalOrder ==
    [][\A i \in 1..MaxSessions : \A f \in Frames :
         /\ ClientMessage(i, f)
              => /\ sessions'[i].up =
                      IF sessions[i].u = "OPEN"
                      THEN sessions[i].up \o << [binary |-> f.binary, type |-> "",
                                                 code |-> "", data |-> f.data] >>
                      ELSE sessions[i].up
                 /\ sessions'[i].down = sessions[i].down
         /\ UpstreamMessage(i, f)
              => /\ sessions'[i].down =
                      IF sessions[i].d = "OPEN"
                      THEN sessions[i].down \o << [binary |-> f.binary, type |-> "",
                                                   code |-> "", data |-> f.data] >>
                      ELSE sessions[i].down
                 /\ sessions'[i].up = sessions[i].up]_vars

\* C12 witness: a binary frame and then a text frame were forwarded upstream
\* in one session.
C12_Witness ==
    \E i \in DOMAIN sessions :
        /\ Len(sessions[i].up) = 2
        /\ sessions[i].up[1].binary
        /\ ~sessions[i].up[2].binary

----------------------------------------------------------------------------
(* Properties of the life of a session, under SpecSession / SpecSessionLive *)

\* The number of Error frames with the given code among the frames sent
\* downstream.
ErrorCount(down, code) ==
    Cardinality({k \in 1..Len(down) :
                   down[k].type = "Error" /\ down[k].code = code})

\* C13 (raw relays, under SpecSessionLive): an upstream error that finds the
\* downstream open sends it an Error frame with code PROVIDER_ERROR; whenever
\* the relay has closed the downstream of a session whose upstream reported an
\* error, that frame was sent before the close; and after such an error the
\* downstream does not stay open: the relay closes it when the upstream's
\* close event arrives, unless the downstream ends by itself first.
C13_ErrorFrameBeforeClose ==
    /\ [][\A i \in 1..MaxSessions :
            (/\ variant \in RawVariants
             /\ i \in DOMAIN sessions
             /\ sessions[i].d = "OPEN"
             /\ (UpstreamError(i) \/ UpstreamOpenFails(i)))
            => /\ sessions'[i].down =
                    Append(sessions[i].down,
                           [binary |-> FALSE, type |-> "Error",
                            code |-> "PROVIDER_ERROR", data |-> ""])
               /\ sessions[i].dClose.called = FALSE]_vars
    /\ [](\A i \in DOMAIN sessions :
            (/\ variant \in RawVariants
             /\ sessions[i].uHist # ""
             /\ sessions[i].dClose.called)
            => ErrorCount(sessions[i].down, "PROVIDER_ERROR") >= 1)
    /\ \A i \in 1..MaxSessions :
         (/\ variant \in RawVariants
          /\ i \in DOMAIN sessions
          /\ sessions[i].uHist # ""
          /\ sessions[i].d = "OPEN")
         ~> (i \in DOMAIN sessions /\ sessions[i].d # "OPEN")

\* C13 witness: the established upstream of a raw relay reported an error,
\* the downstream was sent the Error frame, and the relay then closed it.
C13_Witness ==
    /\ variant \in RawVariants
    /\ \E i \in DOMAIN sessions :
         /\ sessions[i].uHist = "error"
         /\ sessions[i].u = "CLOSED"
         /\ sessions[i].down = << ErrorFrame("PROVIDER_ERROR") >>
         /\ sessions[i].dClose.called
         /\ sessions[i].dClose.coded

\* C14 (raw relays, under SpecSessionLive): when the upstream connection
\* fails to open while the downstream is open, the downstream is sent one
\* Error frame with code PROVIDER_ERROR and is then closed with code 1000; no
\* second Error frame follows; and the session leaves the registry.
C14_UpstreamFailsToOpen ==
    /\ [][\A i \in 1..MaxSessions :
            (/\ variant \in RawVariants
             /\ i \in DOMAIN sessions
             /\ sessions[i].d = "OPEN"
             /\ UpstreamOpenFails(i))
            => /\ sessions'[i].down =
                    << [binary |-> FALSE, type |-> "Error",
                        code |-> "PROVIDER_ERROR", data |-> ""] >>
               /\ sessions'[i].d = "CLOSING"
               /\ sessions'[i].dClose =
                    [called |-> TRUE, coded |-> TRUE, code |-> 1000]]_vars
    /\ [](\A i \in DOMAIN sessions :
            (variant \in RawVariants /\ sessions[i].uHist = "failed")
            => ErrorCount(sessions[i].down, "PROVIDER_ERROR") <= 1)
    /\ \A i \in 1..MaxSessions :
         (/\ variant \in RawVariants
          /\ i \in DOMAIN sessions
          /\ sessions[i].uHist = "failed")
         ~> (i \notin activeConnections)

\* C14 witness: in a relay with a registry the upstream failed to open, the
\* downstream got the Error frame and the close with 1000, its close event
\* has come and the session has left the registry.
C14_Witness ==
    /\ variant \in {"auth", "jwt"}
    /\ \E i \in DOMAIN sessions :
         /\ sessions[i].uHist = "failed"
         /\ sessions[i].down = << ErrorFrame("PROVIDER_ERROR") >>
         /\ sessions[i].dClose = CloseWith(1000)
         /\ sessions[i].d = "CLOSED"
         /\ i \notin activeConnections

\* C15 as stated: in every relay, whenever the relay has closed the
\* downstream of a session whose upstream reported an error or whose wiring
\* failed, a typed Error frame was sent to that downstream before.
C15_TypedErrorBeforeFaultClose ==
    \A i \in DOMAIN sessions :
        (/\ sessions[i].dClose.called
         /\ (sessions[i].uHist # "" \/ ~sessions[i].wired))
        => \E k \in 1..Len(sessions[i].down) : sessions[i].down[k].type = "Error"

\* C16 as stated: in every relay, an upstream connection failure or upstream
\* error leaves the process running.
C16_ProviderErrorNotFatal ==
    [][\A i \in 1..MaxSessions :
         (UpstreamOpenFails(i) \/ UpstreamError(i)) => proc' = "running"]_vars

\* C17 as stated: when the upstream closes with code c while the downstream
\* is open, the relay closes the downstream with c if c is in 1000..4999 and
\* not one of 1004, 1005, 1006, 1015, and with 1000 otherwise.
C17_CloseCodePropagated ==
    [][\A i \in 1..MaxSessions : \A c \in UpstreamCloseCodes :
         (/\ i \in DOMAIN sessions
          /\ sessions[i].d = "OPEN"
          /\ UpstreamClose(i, c))
         => sessions'[i].dClose =
              [called |-> TRUE, coded |-> TRUE,
               code |-> IF c \in 1000..4999 /\ c \notin {1004, 1005, 1006, 1015}
                        THEN c ELSE 1000]]_vars

\* C18 as stated: on a downstream close or a downstream error the relay
\* closes the upstream, whatever state it is in: afterwards the upstream is
\* closing or closed.
C18_UpstreamClosedWithDownstream ==
    [][\A i \in 1..MaxSessions :
         (/\ i \in DOMAIN sessions
          /\ sessions[i].wired
          /\ (ClientClose(i) \/ ClientError(i)))
         => sessions'[i].u \in {"CLOSING", "CLOSED"}]_vars

\* C19 as stated: a session that is torn down (its downstream is closed and
\* it is not in the registry) has its upstream closing or closed.
C19_TornDownUpstreamClosed ==
    \A i \in DOMAIN sessions :
        (/\ sessions[i].wired
         /\ sessions[i].d = "CLOSED"
         /\ i \notin activeConnections)
        => sessions[i].u \in {"CLOSING", "CLOSED"}

\* C20 as stated: in every relay, a failure while wiring a new session sends
\* the downstream an Error frame with code CONNECTION_FAILED and then closes
\* the downstream.
C20_SetupFailureReported ==
    [][\A h \in SessionHeaders : \A path \in Paths :
         UpgradeRequestWiringFails(h, path)
         => LET s == sessions'[Cardinality(DOMAIN sessions) + 1]
            IN  /\ s.down = << [binary |-> FALSE, type |-> "Error",
                                code |-> "CONNECTION_FAILED", data |-> ""] >>
                /\ s.dClose.called
                /\ s.d # "OPEN"]_vars

----------------------------------------------------------------------------
(* Properties of the telephony adapter, checked under SpecTelephony *)

TwilioMediaFrame(p) == Json("media", "", TRUE, << p >>, << >>)
OutputAudioFrame(a) == Json("", "output_audio", FALSE, << >>, << a >>)

\* C21: every media frame from the telephony side becomes exactly one
\* input_audio frame sent upstream, and every output_audio frame from the
\* provider exactly one media frame sent downstream, the payload unchanged
\* and the frames in the order of their arrival.
C21_MediaTranslatedOneToOne ==
    [][\A i \in 1..MaxSessions :
         /\ \A p \in Payloads :
              ClientMessage(i, TwilioMediaFrame(p)) =>
                /\ proc' = proc
                /\ sessions'[i].up = Append(sessions[i].up, InputAudio(<< p >>))
         /\ \A a \in Payloads :
              UpstreamMessage(i, OutputAudioFrame(a)) =>
                /\ proc' = proc
                /\ sessions'[i].down = Append(sessions[i].down, MediaOut(<< a >>))
      ]_vars

\* C22: a media frame without media object or without payload, an
\* output_audio frame without audio and a frame with another event or type
\* make the adapter forward nothing and raise nothing.
C22_IncompleteFrameDropped ==
    [][\A i \in 1..MaxSessions :
         /\ \A f \in (TwilioFrames \ {NotJson}) \ {TwilioMediaFrame(p) : p \in Payloads} :
              ClientMessage(i, f) =>
                /\ proc' = proc
                /\ sessions'[i].up = sessions[i].up
         /\ \A f \in (DeepgramFrames \ {NotJson}) \ {OutputAudioFrame(a) : a \in Payloads} :
              UpstreamMessage(i, f) =>
                /\ proc' = proc
                /\ sessions'[i].down = sessions[i].down
      ]_vars

\* C23: a frame that is not JSON, on either side of a telephony session, is
\* discarded and closes nothing: the process runs on, both sockets stay as
\* they are and nothing is forwarded for it.
C23_MalformedFrameDiscarded ==
    [][\A i \in 1..MaxSessions :
         (ClientMessage(i, NotJson) \/ UpstreamMessage(i, NotJson)) =>
           /\ proc' = proc
           /\ sessions'[i].d = sessions[i].d
           /\ sessions'[i].u = sessions[i].u
           /\ sessions'[i].up = sessions[i].up
           /\ sessions'[i].down = sessions[i].down
      ]_vars

\* C27: the process never ends on a fault while a session is open and has
\* not been sent a close: whenever the process ends, no downstream socket
\* is still open, but for one whose own 'close' event is being handled.
C27_NoExitWithOpenSessions ==
    [][(Alive /\ proc' \notin {"running", "shuttingDown"}) =>
         \A i \in DOMAIN sessions :
            sessions[i].d # "OPEN" \/ ClientClose(i)]_vars

----------------------------------------------------------------------------
(* Properties of the shutdown, checked under SpecShutdown *)

\* C24: on a termination signal every session of the registry is sent a
\* close with code 1001, and the listening endpoint is closed only after
\* those closes have been issued.
C24_ShutdownClosesEverySession ==
    [][\A t \in Signals :
         Trigger(t) =>
           \A i \in shutdownTargets :
              \E k \in DOMAIN shutdownLog' :
                 /\ shutdownLog'[k] = Call("ws.close", i, 1001)
                 /\ \A m \in DOMAIN shutdownLog' :
                       shutdownLog'[m].op = "server.close" => k < m
      ]_vars

\* C25: once the shutdown has begun no session is accepted: no step adds a
\* session, a registry entry or an upstream connection, and an upgrade
\* request is never answered with 101, valid token or not.
C25_NoSessionAfterShutdown ==
    [][proc = "shuttingDown" =>
         /\ DOMAIN sessions' = DOMAIN sessions
         /\ activeConnections' \subseteq activeConnections
         /\ \A i \in DOMAIN sessions :
               sessions'[i].u = "CONNECTING" => sessions[i].u = "CONNECTING"
         /\ \A h \in SessionHeaders : \A path \in Paths :
               UpgradeRequest(h, path) =>
                  upgradeRes' # "101 Switching Protocols"
      ]_vars

\* A valid token was presented after the shutdown began, and no session came
\* of it.
C25_Witness ==
    /\ variant = "auth"
    /\ proc = "shuttingDown"
    /\ upgradeRes = "503 Service Unavailable"
    /\ sessions = << >>

TenSecondsMs == 10 * 1000

\* C26: after a shutdown trigger the process always exits in the end: with
\* code 0 only when every session has closed, with a non-zero code only when
\* the grace timer fires, ten seconds after the trigger.
C26_ShutdownEndsInExit ==
    /\ (proc = "shuttingDown") ~> (proc \in {"exited0", "exited1"})
    /\ [][/\ (proc # "exited0" /\ proc' = "exited0") =>
               \A i \in DOMAIN sessions : sessions[i].d = "CLOSED"
          /\ (proc # "exited1" /\ proc' = "exited1") =>
               now >= shutdownAt + TenSecondsMs
         ]_vars

----------------------------------------------------------------------------
(* Properties of concurrent sessions, checked under SpecPair and SpecAdmit *)

\* A step that is an event of session i: a frame, an error or a close on
\* one of its sockets.
SessionEvent(i) ==
    \/ UpstreamOpen(i)
    \/ UpstreamError(i)
    \/ UpstreamClose(i, 1000)
    \/ \E f \in PairClientFrames : ClientMessage(i, f)
    \/ \E f \in PairUpstreamFrames : UpstreamMessage(i, f)
    \/ ClientClose(i)
    \/ ClientError(i)

\* C28: sessions are independent: an event of one session changes neither
\* the sockets, nor the forwarded frames, nor the registry membership of
\* another session.
C28_SessionsIndependent ==
    [][\A i \in 1..MaxSessions + 1 : \A j \in DOMAIN sessions :
         (i # j /\ SessionEvent(i)) =>
            /\ sessions'[j] = sessions[j]
            /\ (j \in activeConnections') = (j \in activeConnections)
      ]_vars

\* The header h carries a token that is signed with the server's secret and
\* has not expired.
ValidTokenHeader(h) ==
    /\ h.present
    /\ h.list # << >>
    /\ jwtVerify(h.list[1].tok, SESSION_SECRET, now)

\* C29: a token is checked when the connection is made and nowhere else: a
\* correctly signed, unexpired token admits every upgrade that presents it,
\* whatever was admitted with it before, and the relay closes no session
\* for the age of its token.
C29_TokenStateless ==
    /\ [][\A h \in SessionHeaders : \A path \in Paths :
            (/\ proc = "running"
             /\ ValidTokenHeader(h)
             /\ RelayPath(path)
             /\ Upgrade(h, path, MaxSessions + 1)) =>
               /\ upgradeRes' = "101 Switching Protocols"
               /\ Cardinality(DOMAIN sessions') = Cardinality(DOMAIN sessions) + 1
         ]_vars
    /\ [][now' # now =>
            sessions' = sessions /\ activeConnections' = activeConnections]_vars
    /\ [](\A i \in DOMAIN sessions :
            /\ ~sessions[i].dClose.called
            /\ sessions[i].d \in {"OPEN", "CLOSED"})

\* Two sessions were admitted with one token, the token has expired since
\* and a session is still open.
C29_Witness ==
    \E i \in DOMAIN sessions : \E j \in DOMAIN sessions :
       /\ i # j
       /\ sessions[i].validProto # NoEntry
       /\ sessions[i].validProto = sessions[j].validProto
       /\ ~jwtVerify(sessions[i].validProto.tok, SESSION_SECRET, now)
       /\ sessions[i].d = "OPEN"

----------------------------------------------------------------------------
(* The sweep of the nonce store, checked under SpecAuth *)

\* C30: a sweep removes exactly the nonces whose expiry is at or before the
\* clock and leaves the others, and it agrees with consumeNonce on the
\* boundary: what it removes consumeNonce would reject, what it leaves
\* consumeNonce would accept.
C30_SweepRemovesExpired ==
    [][Sweep =>
         /\ DOMAIN sessionNonces' =
              {v \in DOMAIN sessionNonces : ~(sessionNonces[v] <= now)}
         /\ \A v \in DOMAIN sessionNonces' :
              /\ sessionNonces'[v] = sessionNonces[v]
              /\ consumeNonce(sessionNonces', v, now).ret
         /\ \A v \in DOMAIN sessionNonces \ DOMAIN sessionNonces' :
              ~consumeNonce(sessionNonces, v, now).ret
      ]_vars

\* A sweep removed a nonce at the very millisecond of its expiry and left a
\* younger one: no consumeNonce ran, so only the sweep removes.
C30_Witness ==
    /\ lastConsume = NoConsume
    /\ \E v \in DOMAIN mintedAt : \E w \in DOMAIN sessionNonces :
          /\ v \notin DOMAIN sessionNonces
          /\ now = mintedAt[v] + NONCE_TTL_MS
          /\ now < sessionNonces[w]

----------------------------------------------------------------------------
(* Closing twice *)

\* A handle that is closing or closed.
Going(readyState) == readyState \in {"CLOSING", "CLOSED"}

\* C31: the close handlers are idempotent: whatever the order of the close
\* events of the two handles, the close a handler issues on the other handle
\* raises nothing (the process lives on), and it leaves a handle that is
\* already closing or closed, and the close it got, as they are.
C31_CloseIdempotent ==
    [][\A i \in 1..MaxSessions :
         /\ ClientClose(i)
              => /\ proc' = proc
                 /\ Going(sessions[i].u) => sessions'[i].u = sessions[i].u
         /\ (\E c \in UpstreamCloseCodes : UpstreamClose(i, c))
              => /\ proc' = proc
                 /\ Going(sessions[i].d)
                      => /\ sessions'[i].d = sessions[i].d
                         /\ sessions'[i].dClose = sessions[i].dClose]_vars

----------------------------------------------------------------------------
(* One upstream connection *)

\* How far a handle is on its way from connecting to closed.
Rank(readyState) ==
    CASE readyState = "CONNECTING" -> 1
      [] readyState = "OPEN" -> 2
      [] readyState = "CLOSING" -> 3
      [] OTHER -> 4

\* Both handles of the session are closed (or the upstream never existed).
Terminal(s) == s.d = "CLOSED" /\ s.u \in {"CLOSED", "NONE"}

----------------------------------------------------------------------------
(* The registry of open sessions *)

\* C33: while the process runs, the registry holds exactly the admitted
\* downstream handles that have not closed: none at the start, a handle from
\* its admission on, and none whose downstream has closed.
C33_RegistryIsOpenSessions ==
    (HasRegistry /\ Alive)
        => activeConnections = {i \in DOMAIN sessions : sessions[i].d # "CLOSED"}

\* C37: while the process runs, a handle that is in the registry when its
\* downstream is closed is removed from it in the end, also when the wiring
\* of its session failed.
C37_ClosedHandleLeavesRegistry ==
    \A i \in 1..MaxSessions :
        (/\ Alive
         /\ i \in activeConnections
         /\ i \in DOMAIN sessions
         /\ sessions[i].d = "CLOSED")
            ~> (i \notin activeConnections \/ ~Alive)

----------------------------------------------------------------------------
(* One token for one nonce *)

RECURSIVE Total(_, _)
\* The sum of f over S.
Total(f, S) ==
    IF S = {} THEN 0
    ELSE LET x == CHOOSE y \in S : TRUE IN f[x] + Total(f, S \ {x})

\* C35: with nonce enforcement active every token goes to a request whose
\* nonce a page serve issued, which was in the store and is removed by the
\* request, and which no earlier request was issued a token for; so the
\* tokens issued are never more than the nonces issued, however page serves,
\* session requests, sweeps and the clock interleave.
C35_TokenPerNonce ==
    /\ [](REQUIRE_NONCE
            => /\ \A v \in Nonces :
                    accepted[v] >= 1
                    => v \in DOMAIN mintedAt /\ v \notin DOMAIN sessionNonces
               /\ Total(accepted, Nonces) <= Cardinality(DOMAIN mintedAt))
    /\ [][REQUIRE_NONCE
            => \A h \in NonceHeaders :
                 (SessionRequest(h) /\ res'.token)
                 => /\ h # << >>
                    /\ h[1] \in DOMAIN mintedAt
                    /\ h[1] \in DOMAIN sessionNonces
                    /\ h[1] \notin DOMAIN sessionNonces'
                    /\ accepted[h[1]] = 0
                    /\ accepted'[h[1]] = 1]_vars

\* C35 witness: enforcement is active and as many tokens were issued as
\* nonces, one for each of two nonces.
C35_Witness ==
    /\ REQUIRE_NONCE
    /\ res = TokenRes
    /\ Cardinality(DOMAIN mintedAt) = 2
    /\ \A v \in DOMAIN mintedAt : accepted[v] = 1

----------------------------------------------------------------------------
(* Frames that meet a handle that is not open *)

\* C36: in the raw relays a frame is forwarded exactly when the handle it
\* goes to is open as it arrives.  Nothing is ever sent on a handle that is
\* not open; a frame that arrives while the upstream is connecting, or while
\* the handle it goes to is closing or closed, is counted and otherwise
\* leaves the session as it was (no notice to either side, no close), and the
\* frames sent on a handle grow by the frame arriving in that step and in no
\* other way, so that a dropped frame is never sent later.
C36_ForwardedIffOpen ==
    [][\A i \in DOMAIN sessions :
         LET s == sessions[i]
             t == sessions'[i]
         IN  /\ ClientMessage(i, AudioFrame)
                  => t = IF s.u = "OPEN"
                         THEN [s EXCEPT !.cIn = @ + 1,
                                        !.up = Append(@, AudioFrame)]
                         ELSE [s EXCEPT !.cIn = @ + 1]
             /\ UpstreamMessage(i, AudioFrame)
                  => t = IF s.d = "OPEN"
                         THEN [s EXCEPT !.uIn = @ + 1,
                                        !.down = Append(@, AudioFrame)]
                         ELSE [s EXCEPT !.uIn = @ + 1]
             /\ t.up # s.up
                  => s.u = "OPEN" /\ ClientMessage(i, AudioFrame)
             /\ t.down # s.down
                  => /\ s.d = "OPEN"
                     /\ \/ UpstreamMessage(i, AudioFrame)
                        \/ t.down = Append(s.down, ErrorFrame("PROVIDER_ERROR"))]_vars

\* C36 witness: a frame of the client met the connecting upstream and a frame
\* of the upstream, after it had opened, met the closing downstream; neither
\* was sent.
C36_Witness ==
    \E i \in DOMAIN sessions :
        /\ sessions[i].cIn = 1
        /\ sessions[i].uIn = 1
        /\ sessions[i].up = << >>
        /\ sessions[i].down = << >>
        /\ sessions[i].d = "CLOSING"

----------------------------------------------------------------------------
(* Media before the upstream is open *)

\* C40: in the telephony relays a media frame that arrives while the upstream
\* is still connecting is dropped and nothing else happens: the process and
\* both handles of the session stay as they are, so that the session is
\* bridged once the upstream opens.
C40_EarlyMediaDropped ==
    [][\A i \in 1..MaxSessions : \A p \in Payloads :
         (/\ i \in DOMAIN sessions
          /\ sessions[i].u = "CONNECTING"
          /\ ClientMessage(i, TwilioMediaFrame(p)))
         => /\ proc' = proc
            /\ sessions'[i] = [sessions[i] EXCEPT !.cIn = @ + 1]]_vars

----------------------------------------------------------------------------
(* One close for a downstream *)

\* C38: the relay closes the downstream of a session at most once: a close
\* is issued only on an open downstream that was not sent one, and the close
\* a downstream was sent (and so the code it sees) is never replaced,
\* whichever of upstream error, upstream close, setup failure and shutdown
\* come together, the shutdown handler running again included.
C38_OneCloseFirstCode ==
    [][\A i \in DOMAIN sessions :
         /\ sessions[i].dClose.called
              => sessions'[i].dClose = sessions[i].dClose
         /\ sessions'[i].dClose # sessions[i].dClose
              => /\ sessions[i].d = "OPEN"
                 /\ sessions'[i].d = "CLOSING"]_vars

\* C38 witness: the downstream was closed with the code of the upstream's
\* close, and the shutdown handler then ran twice.
C38_Witness ==
    \E i \in DOMAIN sessions :
        /\ variant = "auth"
        /\ i \in activeConnections
        /\ sessions[i].dClose = CloseWith(4000)
        /\ sessions[i].d = "CLOSING"
        /\ Runs(shutdownLog) = 2

----------------------------------------------------------------------------
(* Properties of the bundled client, checked under SpecClient *)

\* C34: on every connection of the page, Settings is sent only in answer to
\* a Welcome of that connection (never more Settings than Welcomes), and a
\* frame of audio, an InjectUserMessage or an Update message is sent only on
\* a connection that has delivered SettingsApplied.
C34_SettingsBeforeTraffic ==
    \A j \in DOMAIN client.sent :
        LET o == client.sent[j]
        IN  IF o.frame = "Settings"
            THEN Cardinality({i \in 1..j : client.sent[i] = o})
                    <= client.socks[o.sock].welcomes
            ELSE client.socks[o.sock].applied

\* C34 witness: Settings and then audio went out on a first connection, and
\* Settings on the connection made after it.
C34_Witness ==
    client.sent = << Out(1, "Settings"), Out(1, "audio"), Out(2, "Settings") >>

\* C39: the close event of a socket that is no longer the page's connection
\* leaves the connection made after it alone: state.ws, the socket it names
\* and state.isConnected stay as they are.
C39_StaleCloseLeavesNewConnection ==
    [][\A k \in DOMAIN client.socks :
         (SocketClosed(k) /\ client.ws \notin {0, k})
         => /\ client'.ws = client.ws
            /\ client'.socks[client.ws] = client.socks[client.ws]
            /\ client'.isConnected = client.isConnected]_vars


====
